---- MODULE Spec2Model ----
(***************************************************************************)
(* Model of Project_EnergyData.ipynb: CSV ingestion into a document store, *)
(* retrieval and forward-fill, scaling and training of three regressors,   *)
(* evaluation (RMSE, MSE, MAPE) and the Dash dashboard callback.           *)
(*                                                                         *)
(* Numbers: a cell of a table is an integer, NaN is the sentinel below.    *)
(* Floating-point results are exact rationals [kind, num, den] with the    *)
(* IEEE specials "inf" and "nan"; rounding is not modelled.                *)
(***************************************************************************)
EXTENDS Integers, Sequences, FiniteSets

\* ---------------------------------------------------------------- bounds
MaxRows == 2      \* most rows in a CSV file
MaxClicks == 1    \* most clicks on each button
MaxRuns == 2      \* most runs of the notebook against the same store
MaxLen == 3       \* longest column given to the stand-alone forward-fill
MaxTest == 2      \* most test rows given to the stand-alone MAPE

NaN == 0 - 1
IsNaN(v) == v = NaN

\* ------------------------------------------------------- program constants
columns == <<"dtm", "MIP", "Solar_MW", "Solar_capacity_mwp",
             "Solar_installedcapacity_mwp", "SS_Price", "boa_MWh", "DA_Price">>
features == <<"MIP", "Solar_capacity_mwp", "Solar_installedcapacity_mwp",
              "SS_Price", "boa_MWh", "DA_Price">>
target == "Solar_MW"
ModelKeys == <<"lr", "rf", "svm">>
NoneKey == "None"          \* the value of a cleared dropdown

Range(s) == {s[i] : i \in 1..Len(s)}
ModelSet == Range(ModelKeys)
FileNames == {"train", "test"}

\* ------------------------------------------------------------ CSV inputs
\* A file on disk: it may be absent, may fail to parse, and has a header
\* and rows.  Files carry one column the program does not list.
CsvHeader == Range(columns) \cup {"Wind_MW"}
ShortHeader == CsvHeader \ {"DA_Price"}
RowKinds == {"P", "Z", "N"}

CsvRowOf(i, mip, solar, header) ==
    [c \in header |->
        IF c = "dtm" THEN i
        ELSE IF c = "MIP" THEN mip
        ELSE IF c = "Solar_MW" THEN solar
        ELSE 1]

CsvRow(i, kind, header) ==
    IF kind = "N" THEN CsvRowOf(i, NaN, NaN, header)
    ELSE IF kind = "Z" THEN CsvRowOf(i, 1, 0, header)
    ELSE CsvRowOf(i, 2, 2, header)

CsvFile(rows) ==
    [exists |-> TRUE, wellformed |-> TRUE, header |-> CsvHeader, rows |-> rows]

CsvTable(kinds, header) == [i \in 1..Len(kinds) |-> CsvRow(i, kinds[i], header)]

KindSeqs == UNION {[1..n -> RowKinds] : n \in 0..MaxRows}

Files ==
    {[exists |-> FALSE, wellformed |-> FALSE, header |-> {}, rows |-> <<>>],
     [exists |-> TRUE, wellformed |-> FALSE, header |-> {}, rows |-> <<>>],
     [exists |-> TRUE, wellformed |-> TRUE, header |-> ShortHeader,
      rows |-> CsvTable(<<"P">>, ShortHeader)]}
    \cup {CsvFile(CsvTable(k, CsvHeader)) : k \in KindSeqs}

\* ------------------------------------------------------------- variables
VARIABLES
    csv,            \* the two files on disk
    store,          \* the document store: collection -> documents
    nextId,         \* the store's next _id
    run,            \* number of the current run of the notebook
    imports,        \* collection -> completed import_csv_data calls, all runs
    pc,             \* position of the run in the notebook
    fault,          \* the exception that ended the run, or "none"
    client,         \* state ("none", "open", "closed") and number of clients made
    storeOps,       \* store operations of this run, in order
    data_train, data_test,
    X_train_split, y_train_split, X_valid_split,
    scaler,         \* fitted statistics and the number of fits
    X_train_scaled, X_valid_scaled, X_test_scaled,
    models,         \* model key -> fitted parameters
    X_test, y_test,
    predictions, results,
    predictCalls,   \* calls of model.predict so far in this run
    idx,            \* position of the running loop over the models
    callbacks,      \* the callbacks registered with the app
    loaded,         \* the page is rendered in a browser
    n_clicks, end_clicks, model_type,
    output,         \* what the page shows: figure and three texts
    lastCall        \* the last invocation of update_output

storeVars == <<store, nextId, imports>>
connVars == <<client, storeOps>>
tableVars == <<data_train, data_test>>
trainVars == <<X_train_split, y_train_split, X_valid_split, scaler,
               X_train_scaled, X_valid_scaled, models>>
evalVars == <<X_test, y_test, X_test_scaled, predictions, results, predictCalls>>
uiVars == <<callbacks, loaded, n_clicks, end_clicks, model_type, output, lastCall>>
vars == <<csv, run, pc, idx, fault, storeVars, connVars, tableVars, trainVars,
          evalVars, uiVars>>

\* ------------------------------------------------------------ data frames
\* A table read back from the store: a sequence of rows, each a function
\* from column name to value.  A selection data[cols] is a frame with the
\* columns in the order asked for.
Col(table, c) == [i \in 1..Len(table) |-> table[i][c]]

Select(table, cols) ==
    [cols |-> cols,
     rows |-> [i \in 1..Len(table) |-> [j \in 1..Len(cols) |-> table[i][cols[j]]]]]

NoFrame == [cols |-> <<>>, rows |-> <<>>]

DropColumn(table, c) ==
    [i \in 1..Len(table) |-> [d \in (DOMAIN table[i]) \ {c} |-> table[i][d]]]

\* forward-fill that looks one row up in the unfilled column only
ffill_one_row(col) ==
    [i \in 1..Len(col) |-> IF IsNaN(col[i]) /\ i > 1 THEN col[i - 1] ELSE col[i]]

\* fillna(method='ffill') on one column: walking down the column, a missing
\* value takes the value of the row above as already filled.
RECURSIVE ffill(_)
ffill(col) ==
    IF col = <<>> THEN <<>>
    ELSE LET n == Len(col)
             above == ffill(SubSeq(col, 1, n - 1))
         IN Append(above, IF IsNaN(col[n]) /\ n > 1 THEN above[n - 1] ELSE col[n])

fillna(table) ==
    [i \in 1..Len(table) |-> [c \in DOMAIN table[i] |-> ffill(Col(table, c))[i]]]

SubSeqAt(s, I) ==
    LET F[i \in 0..Len(s)] ==
            IF i = 0 THEN <<>>
            ELSE IF i \in I THEN Append(F[i - 1], s[i]) ELSE F[i - 1]
    IN F[Len(s)]

HasNaN(s) == \E i \in 1..Len(s) : IsNaN(s[i])

\* ------------------------------------------------------------- the scaler
\* StandardScaler: per column the count, sum and sum of squares of the
\* values seen by fit (missing values are left out).  A scaled value
\* (x - mean) / std is kept exactly as <<num, den2>> = num / sqrt(den2) with
\* num = n*x - sum and den2 = n*sumsq - sum^2; a column of zero variance is
\* scaled by 1 (den2 = n^2).  <<0, 0>> is a scaled NaN.
RECURSIVE SumOver(_, _)
SumOver(s, sq) ==
    IF s = <<>> THEN 0
    ELSE LET v == s[Len(s)]
             rest == SumOver(SubSeq(s, 1, Len(s) - 1), sq)
         IN IF IsNaN(v) THEN rest ELSE rest + (IF sq THEN v * v ELSE v)

CountOver(s) == Cardinality({i \in 1..Len(s) : ~IsNaN(s[i])})

ColStats(rows, j) ==
    LET col == [i \in 1..Len(rows) |-> rows[i][j]]
    IN [n |-> CountOver(col), sum |-> SumOver(col, FALSE), sumsq |-> SumOver(col, TRUE)]

NoScaler == [nfit |-> 0, feature_names |-> <<>>, stats |-> <<>>]

ScalerFit(sc, frame) ==
    [nfit |-> sc.nfit + 1,
     feature_names |-> frame.cols,
     stats |-> [j \in 1..Len(frame.cols) |-> ColStats(frame.rows, j)]]

ScaledNaN == <<0, 0>>

ScaleValue(st, x) ==
    IF IsNaN(x) \/ st.n = 0 THEN ScaledNaN
    ELSE LET var == st.n * st.sumsq - st.sum * st.sum
         IN <<st.n * x - st.sum, IF var = 0 THEN st.n * st.n ELSE var>>

ScalerTransform(sc, frame) ==
    [i \in 1..Len(frame.rows) |->
        [j \in 1..Len(frame.cols) |-> ScaleValue(sc.stats[j], frame.rows[i][j])]]

ScaledHasNaN(rows) ==
    \E i \in 1..Len(rows) : \E j \in 1..Len(rows[i]) : rows[i][j] = ScaledNaN

\* -------------------------------------------------------------- metrics
RECURSIVE GCD(_, _)
GCD(a, b) == IF b = 0 THEN a ELSE GCD(b, a % b)

Abs(x) == IF x < 0 THEN 0 - x ELSE x

Fin(num, den) ==
    LET g == GCD(Abs(num), den)
    IN [kind |-> "fin", num |-> num \div g, den |-> den \div g]
Inf == [kind |-> "inf", num |-> 0, den |-> 0]
NaNf == [kind |-> "nan", num |-> 0, den |-> 0]
Sqrt(f) == [kind |-> "sqrt", num |-> f.num, den |-> f.den]
IsFinite(f) == f.kind \in {"fin", "sqrt"}

RECURSIVE SumSq(_, _)
SumSq(y, p) ==
    IF y = <<>> THEN 0
    ELSE LET n == Len(y)
         IN SumSq(SubSeq(y, 1, n - 1), SubSeq(p, 1, n - 1)) + (y[n] - p[n]) * (y[n] - p[n])

mean_squared_error(y, p) == Fin(SumSq(y, p), Len(y))

\* |(actual - predicted) / actual| for one row, in IEEE arithmetic
ape(a, p) ==
    IF a = 0 THEN (IF p = 0 THEN NaNf ELSE Inf)
    ELSE Fin(Abs(a - p), Abs(a))

AddF(f, g) == Fin(f.num * g.den + g.num * f.den, f.den * g.den)

RECURSIVE SumF(_)
SumF(s) == IF s = <<>> THEN Fin(0, 1) ELSE AddF(SumF(Tail(s)), Head(s))

\* the mean of a plain array: one NaN entry makes the mean NaN
SeriesMean_keep_nan(s) ==
    IF s = <<>> \/ \E i \in 1..Len(s) : s[i].kind = "nan" THEN NaNf
    ELSE IF \E i \in 1..Len(s) : s[i].kind = "inf" THEN Inf
    ELSE LET t == SumF(s) IN Fin(t.num, t.den * Len(s))

\* np.mean of a pandas Series is Series.mean, which leaves NaN entries out
SeriesMean(s) ==
    LET kept == SubSeqAt(s, {i \in 1..Len(s) : s[i].kind # "nan"})
    IN IF kept = <<>> THEN NaNf
       ELSE IF \E i \in 1..Len(kept) : kept[i].kind = "inf" THEN Inf
       ELSE LET t == SumF(kept) IN Fin(t.num, t.den * Len(kept))

Times(f, k) == IF f.kind = "fin" THEN Fin(f.num * k, f.den) ELSE f

mape(y, p) == Times(SeriesMean([i \in 1..Len(y) |-> ape(y[i], p[i])]), 100)

Metrics(y, p) ==
    [RMSE |-> Sqrt(mean_squared_error(y, p)),
     MSE |-> mean_squared_error(y, p),
     MAPE |-> mape(y, p)]

\* ----------------------------------------------------------- the program
NoClient == [state |-> "none", opens |-> 0]
NoOutput == [figure |-> [data |-> <<>>, title |-> "unrendered"],
             rmse |-> <<>>, mse |-> <<>>, mape |-> <<>>]
NoCall == [trigger |-> "none", n_clicks |-> 0, model_type |-> "lr", raised |-> "none"]

NotYetTrained ==
    /\ X_train_split = NoFrame /\ y_train_split = <<>> /\ X_valid_split = NoFrame
    /\ scaler = NoScaler
    /\ X_train_scaled = <<>> /\ X_valid_scaled = <<>>
    /\ models = <<>>

NotYetEvaluated ==
    /\ X_test = NoFrame /\ y_test = <<>> /\ X_test_scaled = <<>>
    /\ predictions = <<>> /\ results = <<>> /\ predictCalls = 0

NoApp ==
    /\ callbacks = {} /\ loaded = FALSE
    /\ n_clicks = 0 /\ end_clicks = 0 /\ model_type = "lr"
    /\ output = NoOutput
    /\ lastCall = NoCall

\* the memory of a process that has just started
Memory ==
    /\ pc = "connect" /\ idx = 0 /\ fault = "none"
    /\ client = NoClient /\ storeOps = <<>>
    /\ data_train = <<>> /\ data_test = <<>>
    /\ NotYetTrained /\ NotYetEvaluated /\ NoApp

Init ==
    /\ csv \in [FileNames -> Files]
    /\ store = [c \in FileNames |-> <<>>]
    /\ nextId = 1
    /\ run = 1
    /\ imports = [c \in FileNames |-> 0]
    /\ Memory

Goto(label) == pc' = label /\ fault' = "none"
\* an exception that is recorded and passed over: the run goes on to the server
Raise_swallowed(exception) == pc' = "run_server" /\ fault' = exception
Raise(exception) == pc' = "halted" /\ fault' = exception

\* client = MongoClient(...): the client connects on its first operation
Connect ==
    /\ pc = "connect"
    /\ client' = [state |-> "open", opens |-> client.opens + 1]
    /\ Goto("import_train")
    /\ UNCHANGED <<csv, run, idx, storeVars, storeOps, tableVars, trainVars,
                   evalVars, uiVars>>

\* import_csv_data up to the insert: the records, or the exception raised
read_records(file, required_columns) ==
    IF ~file.exists THEN [raised |-> "FileNotFoundError", records |-> <<>>]
    ELSE IF ~file.wellformed THEN [raised |-> "ParserError", records |-> <<>>]
    ELSE IF ~(Range(required_columns) \subseteq file.header)
         THEN [raised |-> "KeyError", records |-> <<>>]
    ELSE [raised |-> "none",
          records |-> [i \in 1..Len(file.rows) |->
                          [c \in Range(required_columns) |-> file.rows[i][c]]]]

\* a write that replaces the collection instead of appending to it
insert_many_replace(docs, records, firstId) ==
    [i \in 1..Len(records) |->
        [c \in (DOMAIN records[i]) \cup {"_id"} |->
            IF c = "_id" THEN firstId + i - 1 ELSE records[i][c]]]

\* collection.insert_many: one document per record, each given a fresh _id
insert_many(docs, records, firstId) ==
    docs \o [i \in 1..Len(records) |->
                [c \in (DOMAIN records[i]) \cup {"_id"} |->
                    IF c = "_id" THEN firstId + i - 1 ELSE records[i][c]]]

import_csv_data(coll, here, next) ==
    /\ pc = here
    /\ \E up \in BOOLEAN :
        LET r == read_records(csv[coll], columns)
        IN IF r.raised # "none"
           THEN Raise(r.raised) /\ UNCHANGED <<storeVars, storeOps>>
           ELSE IF r.records = <<>>
           THEN Raise("TypeError") /\ UNCHANGED <<storeVars, storeOps>>
           ELSE /\ storeOps' = Append(storeOps, <<"insert_many", coll>>)
                /\ IF ~up
                   THEN Raise("ServerSelectionTimeoutError") /\ UNCHANGED storeVars
                   ELSE /\ store' = [store EXCEPT
                                        ![coll] = insert_many(@, r.records, nextId)]
                        /\ nextId' = nextId + Len(r.records)
                        /\ imports' = [imports EXCEPT ![coll] = @ + 1]
                        /\ Goto(next)
    /\ UNCHANGED <<csv, run, idx, client, tableVars, trainVars, evalVars, uiVars>>

ImportTrain == import_csv_data("train", "import_train", "import_test")
ImportTest == import_csv_data("test", "import_test", "find_train")

\* pd.DataFrame(list(collection.find())): every document of the collection
FindTrain ==
    /\ pc = "find_train"
    /\ storeOps' = Append(storeOps, <<"find", "train">>)
    /\ \E up \in BOOLEAN :
        IF up THEN data_train' = store["train"] /\ Goto("find_test")
        ELSE Raise("ServerSelectionTimeoutError") /\ UNCHANGED data_train
    /\ UNCHANGED <<csv, run, idx, storeVars, client, data_test, trainVars,
                   evalVars, uiVars>>

FindTest ==
    /\ pc = "find_test"
    /\ storeOps' = Append(storeOps, <<"find", "test">>)
    /\ \E up \in BOOLEAN :
        IF up THEN data_test' = store["test"] /\ Goto("drop_train")
        ELSE Raise("ServerSelectionTimeoutError") /\ UNCHANGED data_test
    /\ UNCHANGED <<csv, run, idx, storeVars, client, data_train, trainVars,
                   evalVars, uiVars>>

\* data.drop('_id', axis=1, inplace=True): a frame without rows has no columns
DropIdTrain ==
    /\ pc = "drop_train"
    /\ IF data_train = <<>> THEN Raise("KeyError") /\ UNCHANGED data_train
       ELSE data_train' = DropColumn(data_train, "_id") /\ Goto("drop_test")
    /\ UNCHANGED <<csv, run, idx, storeVars, connVars, data_test, trainVars,
                   evalVars, uiVars>>

DropIdTest ==
    /\ pc = "drop_test"
    /\ IF data_test = <<>> THEN Raise("KeyError") /\ UNCHANGED data_test
       ELSE data_test' = DropColumn(data_test, "_id") /\ Goto("fillna_train")
    /\ UNCHANGED <<csv, run, idx, storeVars, connVars, data_train, trainVars,
                   evalVars, uiVars>>

FillnaTrain ==
    /\ pc = "fillna_train"
    /\ data_train' = fillna(data_train)
    /\ Goto("fillna_test")
    /\ UNCHANGED <<csv, run, idx, storeVars, connVars, data_test, trainVars,
                   evalVars, uiVars>>

FillnaTest ==
    /\ pc = "fillna_test"
    /\ data_test' = fillna(data_test)
    /\ Goto("close")
    /\ UNCHANGED <<csv, run, idx, storeVars, connVars, data_train, trainVars,
                   evalVars, uiVars>>

\* a run that never closes its client
Close_skipped ==
    /\ pc = "close"
    /\ client' = client
    /\ Goto("split")
    /\ UNCHANGED <<csv, run, idx, storeVars, storeOps, tableVars, trainVars,
                   evalVars, uiVars>>

\* client.close()
Close ==
    /\ pc = "close"
    /\ client' = [client EXCEPT !.state = "closed"]
    /\ Goto("split")
    /\ UNCHANGED <<csv, run, idx, storeVars, storeOps, tableVars, trainVars,
                   evalVars, uiVars>>

\* train_test_split(X_train, y_train, test_size=0.2, random_state=42): the
\* rows of the validation part are fixed by the seed; here any choice of
\* ceil(0.2 n) rows, the parts keeping the order of the table.
X_train == Select(data_train, features)
y_train == Col(data_train, target)

train_test_split ==
    /\ pc = "split"
    /\ LET n == Len(data_train)
           n_test == (n + 4) \div 5
       IN IF n - n_test = 0
          THEN /\ Raise("ValueError")
               /\ UNCHANGED <<X_train_split, y_train_split, X_valid_split>>
          ELSE \E V \in {S \in SUBSET (1..n) : Cardinality(S) = n_test} :
               /\ X_train_split' = [X_train EXCEPT !.rows = SubSeqAt(@, (1..n) \ V)]
               /\ X_valid_split' = [X_train EXCEPT !.rows = SubSeqAt(@, V)]
               /\ y_train_split' = SubSeqAt(y_train, (1..n) \ V)
               /\ Goto("fit_scaler")
    /\ UNCHANGED <<csv, run, idx, storeVars, connVars, tableVars, scaler,
                   X_train_scaled, X_valid_scaled, models, evalVars, uiVars>>

\* scaler = StandardScaler(); X_train_scaled = scaler.fit_transform(X_train_split)
fit_transform(sc, frame) ==
    LET fitted == ScalerFit(sc, frame)
    IN [scaler |-> fitted, scaled |-> ScalerTransform(fitted, frame)]

\* a transform that fits the scaler again on the frame it is given
transform_refit(sc, frame) ==
    [raised |-> "none", scaler |-> ScalerFit(sc, frame),
     scaled |-> ScalerTransform(ScalerFit(sc, frame), frame)]

\* scaler.transform(frame): the columns must be those of the fit, in order
transform(sc, frame) ==
    IF frame.cols # sc.feature_names THEN [raised |-> "ValueError", scaler |-> sc,
                                             scaled |-> <<>>]
    ELSE [raised |-> "none", scaler |-> sc, scaled |-> ScalerTransform(sc, frame)]

FitScaler ==
    /\ pc = "fit_scaler"
    /\ LET r == fit_transform(NoScaler, X_train_split)
       IN scaler' = r.scaler /\ X_train_scaled' = r.scaled
    /\ Goto("transform_valid")
    /\ UNCHANGED <<csv, run, idx, storeVars, connVars, tableVars, X_train_split,
                   y_train_split, X_valid_split, X_valid_scaled, models,
                   evalVars, uiVars>>

TransformValid ==
    /\ pc = "transform_valid"
    /\ LET r == transform(scaler, X_valid_split)
       IN /\ scaler' = r.scaler
          /\ IF r.raised # "none" THEN Raise(r.raised) /\ UNCHANGED X_valid_scaled
             ELSE X_valid_scaled' = r.scaled /\ Goto("create_models")
    /\ UNCHANGED <<csv, run, idx, storeVars, connVars, tableVars, X_train_split,
                   y_train_split, X_valid_split, X_train_scaled, models,
                   evalVars, uiVars>>

\* models = {'lr': LinearRegression(), 'rf': ..., 'svm': SVR()}
CreateModels ==
    /\ pc = "create_models"
    /\ models' = [m \in ModelSet |-> [fitted |-> FALSE, lo |-> 0, hi |-> 0]]
    /\ idx' = 1
    /\ Goto("fit_models")
    /\ UNCHANGED <<csv, run, storeVars, connVars, tableVars, X_train_split,
                   y_train_split, X_valid_split, scaler, X_train_scaled,
                   X_valid_scaled, evalVars, uiVars>>

\* A regressor is opaque: fit rejects missing values and otherwise leaves
\* some fitted parameters; predict gives one value per row from them.  Here
\* a fitted regressor is a step on the first scaled feature: lo at or below
\* the training mean, hi above it.
FitParams == {<<0, 0>>, <<0, 1>>}

FitModels ==
    /\ pc = "fit_models"
    /\ IF ScaledHasNaN(X_train_scaled) \/ HasNaN(y_train_split)
       THEN Raise("ValueError") /\ UNCHANGED <<models, idx>>
       ELSE /\ \E c \in FitParams :
                models' = [models EXCEPT ![ModelKeys[idx]] =
                              [fitted |-> TRUE, lo |-> c[1], hi |-> c[2]]]
            /\ IF idx < Len(ModelKeys)
               THEN idx' = idx + 1 /\ Goto("fit_models")
               ELSE idx' = 0 /\ Goto("prepare_test")
    /\ UNCHANGED <<csv, run, storeVars, connVars, tableVars, X_train_split,
                   y_train_split, X_valid_split, scaler, X_train_scaled,
                   X_valid_scaled, evalVars, uiVars>>

PrepareTest ==
    /\ pc = "prepare_test"
    /\ X_test' = Select(data_test, features)
    /\ y_test' = Col(data_test, target)
    /\ Goto("transform_test")
    /\ UNCHANGED <<csv, run, idx, storeVars, connVars, tableVars, trainVars,
                   X_test_scaled, predictions, results, predictCalls, uiVars>>

TransformTest ==
    /\ pc = "transform_test"
    /\ LET r == transform(scaler, X_test)
       IN /\ scaler' = r.scaler
          /\ IF r.raised # "none" THEN Raise(r.raised) /\ UNCHANGED X_test_scaled
             ELSE X_test_scaled' = r.scaled /\ Goto("predict")
    /\ UNCHANGED <<csv, run, idx, storeVars, connVars, tableVars, X_train_split,
                   y_train_split, X_valid_split, X_train_scaled, X_valid_scaled,
                   models, X_test, y_test, predictions, results, predictCalls, uiVars>>

predict(model, scaled) ==
    [i \in 1..Len(scaled) |-> IF scaled[i][1][1] > 0 THEN model.hi ELSE model.lo]

\* predictions = {model_name: model.predict(X_test_scaled) for ...}
Predict ==
    /\ pc = "predict"
    /\ IF ScaledHasNaN(X_test_scaled)
       THEN Raise("ValueError") /\ UNCHANGED <<predictions, predictCalls, idx>>
       ELSE /\ predictions' = [m \in ModelSet |-> predict(models[m], X_test_scaled)]
            /\ predictCalls' = predictCalls + Len(ModelKeys)
            /\ idx' = 1
            /\ Goto("evaluate")
    /\ UNCHANGED <<csv, run, storeVars, connVars, tableVars, trainVars, X_test,
                   y_test, X_test_scaled, results, uiVars>>

\* for model_name, preds in predictions.items(): results[model_name] = {...}
Evaluate ==
    /\ pc = "evaluate"
    /\ IF HasNaN(y_test)
       THEN Raise("ValueError") /\ UNCHANGED <<results, idx>>
       ELSE /\ results' = [m \in (DOMAIN results) \cup {ModelKeys[idx]} |->
                              IF m = ModelKeys[idx]
                              THEN Metrics(y_test, predictions[m])
                              ELSE results[m]]
            /\ IF idx < Len(ModelKeys)
               THEN idx' = idx + 1 /\ Goto("evaluate")
               ELSE idx' = 0 /\ Goto("build_app")
    /\ UNCHANGED <<csv, run, storeVars, connVars, tableVars, trainVars, X_test,
                   y_test, X_test_scaled, predictions, predictCalls, uiVars>>

\* -------------------------------------------------------------- dashboard
StartProp == "start-button.n_clicks"
EndProp == "end-button.n_clicks"
ModelProp == "model-selector.value"

\* a registration that also listens to the End button
Registration_with_end ==
    [outputs |-> <<"prediction-graph.figure", "rmse-display.children",
                   "mse-display.children", "mape-display.children">>,
     inputs |-> {StartProp, EndProp, ModelProp},
     handler |-> "update_output"]

\* @app.callback([Output ... x4], [Input('start-button', 'n_clicks'),
\*                                 Input('model-selector', 'value')])
Registration ==
    [outputs |-> <<"prediction-graph.figure", "rmse-display.children",
                   "mse-display.children", "mape-display.children">>,
     inputs |-> {StartProp, ModelProp},
     handler |-> "update_output"]

\* app = dash.Dash(...); app.layout = ...; the decorator registers the callback
BuildApp ==
    /\ pc = "build_app"
    /\ callbacks' = {Registration}
    /\ n_clicks' = 0 /\ end_clicks' = 0 /\ model_type' = "lr"
    /\ Goto("run_server")
    /\ UNCHANGED <<csv, run, idx, storeVars, connVars, tableVars, trainVars,
                   evalVars, loaded, output, lastCall>>

\* app.run_server(debug=True, port=8051)
RunServer ==
    /\ pc = "run_server"
    /\ Goto("serving")
    /\ UNCHANGED <<csv, run, idx, storeVars, connVars, tableVars, trainVars,
                   evalVars, uiVars>>

Scatter(x, y, mode, name) == [x |-> x, y |-> y, mode |-> mode, name |-> name]
Figure(data, title) == [data |-> data, title |-> title]
RangeIndex(s) == [i \in 1..Len(s) |-> i - 1]

EmptyOutput == [figure |-> Figure(<<>>, ""), rmse |-> <<>>, mse |-> <<>>, mape |-> <<>>]

ChartOutput(m) ==
    LET preds == predictions[m]
        trace == Scatter(RangeIndex(y_test), preds, "lines+markers", "Predicted")
        trace_actual == Scatter(RangeIndex(y_test), y_test, "lines", "Actual")
        metrics == results[m]
    IN [figure |-> Figure(<<trace, trace_actual>>, "Solar Energy Production Forecast"),
        rmse |-> <<"RMSE: ", metrics.RMSE>>,
        mse |-> <<"MSE: ", metrics.MSE>>,
        mape |-> <<"MAPE: ", metrics.MAPE>>]

\* the callback with the test n_clicks >= 0
update_output_ge(n, m) ==
    IF n >= 0
    THEN IF m \notin DOMAIN predictions \/ m \notin DOMAIN results
         THEN [raised |-> "KeyError", value |-> EmptyOutput]
         ELSE [raised |-> "none", value |-> ChartOutput(m)]
    ELSE [raised |-> "none", value |-> EmptyOutput]

\* the callback with the lookup made before the click count is tested
update_output_lookup_first(n, m) ==
    IF m \notin DOMAIN predictions \/ m \notin DOMAIN results
    THEN [raised |-> "KeyError", value |-> EmptyOutput]
    ELSE IF n > 0 THEN [raised |-> "none", value |-> ChartOutput(m)]
    ELSE [raised |-> "none", value |-> EmptyOutput]

\* update_output(n_clicks, model_type): what it returns, or the exception
update_output(n, m) ==
    IF n > 0
    THEN IF m \notin DOMAIN predictions \/ m \notin DOMAIN results
         THEN [raised |-> "KeyError", value |-> EmptyOutput]
         ELSE [raised |-> "none", value |-> ChartOutput(m)]
    ELSE [raised |-> "none", value |-> EmptyOutput]

\* a callback that calls model.predict again for the selected model
Dispatch_recompute(prop, n, m) ==
    /\ IF \E cb \in callbacks : prop \in cb.inputs
       THEN LET r == update_output(n, m)
            IN /\ lastCall' = [trigger |-> prop, n_clicks |-> n, model_type |-> m,
                               raised |-> r.raised]
               /\ output' = IF r.raised = "none" THEN r.value ELSE output
               /\ IF n > 0 /\ m \in DOMAIN models
                  THEN /\ predictions' = [predictions EXCEPT
                                             ![m] = predict(models[m], X_test_scaled)]
                       /\ predictCalls' = predictCalls + 1
                  ELSE UNCHANGED <<predictions, predictCalls>>
       ELSE UNCHANGED <<output, lastCall, predictions, predictCalls>>
    /\ UNCHANGED <<storeVars, connVars, tableVars, trainVars, X_test, y_test,
                   X_test_scaled, results>>

\* A property of the page changed: every callback with that property among
\* its inputs runs with the current values; a callback that raises leaves
\* the page as it was.  update_output only reads the globals.
Dispatch(prop, n, m) ==
    /\ IF \E cb \in callbacks : prop \in cb.inputs
       THEN LET r == update_output(n, m)
            IN /\ lastCall' = [trigger |-> prop, n_clicks |-> n, model_type |-> m,
                               raised |-> r.raised]
               /\ output' = IF r.raised = "none" THEN r.value ELSE output
       ELSE UNCHANGED <<output, lastCall>>
    /\ UNCHANGED <<storeVars, connVars, tableVars, trainVars, evalVars>>

\* the browser renders the layout and every callback runs once (the call is
\* recorded under the callback's first input)
PageLoad ==
    /\ pc = "serving" /\ ~loaded
    /\ loaded' = TRUE
    /\ Dispatch(StartProp, n_clicks, model_type)
    /\ UNCHANGED <<csv, run, pc, idx, fault, callbacks, n_clicks, end_clicks, model_type>>

ClickStart ==
    /\ pc = "serving" /\ loaded /\ n_clicks < MaxClicks
    /\ n_clicks' = n_clicks + 1
    /\ Dispatch(StartProp, n_clicks + 1, model_type)
    /\ UNCHANGED <<csv, run, pc, idx, fault, callbacks, loaded, end_clicks, model_type>>

ClickEnd ==
    /\ pc = "serving" /\ loaded /\ end_clicks < MaxClicks
    /\ end_clicks' = end_clicks + 1
    /\ Dispatch(EndProp, n_clicks, model_type)
    /\ UNCHANGED <<csv, run, pc, idx, fault, callbacks, loaded, n_clicks, model_type>>

\* the dropdown offers the three models and can be cleared
SelectModel ==
    /\ pc = "serving" /\ loaded
    /\ \E m \in (ModelSet \cup {NoneKey}) \ {model_type} :
        /\ model_type' = m
        /\ Dispatch(ModelProp, n_clicks, m)
    /\ UNCHANGED <<csv, run, pc, idx, fault, callbacks, loaded, n_clicks, end_clicks>>

\* the notebook is interrupted wherever it is and run again: a new process
\* against the same files and the same store
Rerun ==
    /\ run < MaxRuns
    /\ run' = run + 1
    /\ pc' = "connect" /\ idx' = 0 /\ fault' = "none"
    /\ client' = NoClient /\ storeOps' = <<>>
    /\ data_train' = <<>> /\ data_test' = <<>>
    /\ X_train_split' = NoFrame /\ y_train_split' = <<>> /\ X_valid_split' = NoFrame
    /\ scaler' = NoScaler
    /\ X_train_scaled' = <<>> /\ X_valid_scaled' = <<>>
    /\ models' = <<>>
    /\ X_test' = NoFrame /\ y_test' = <<>> /\ X_test_scaled' = <<>>
    /\ predictions' = <<>> /\ results' = <<>> /\ predictCalls' = 0
    /\ callbacks' = {} /\ loaded' = FALSE
    /\ n_clicks' = 0 /\ end_clicks' = 0 /\ model_type' = "lr"
    /\ output' = NoOutput
    /\ lastCall' = NoCall
    /\ UNCHANGED <<csv, storeVars>>

Pipeline ==
    \/ Connect \/ ImportTrain \/ ImportTest \/ FindTrain \/ FindTest
    \/ DropIdTrain \/ DropIdTest \/ FillnaTrain \/ FillnaTest \/ Close
    \/ train_test_split \/ FitScaler \/ TransformValid \/ CreateModels \/ FitModels
    \/ PrepareTest \/ TransformTest \/ Predict \/ Evaluate \/ BuildApp \/ RunServer

Next == Pipeline \/ PageLoad \/ ClickStart \/ ClickEnd \/ SelectModel

Spec == Init /\ [][Next]_vars

\* ---------------------------------------- re-running ingestion and retrieval
NextRuns ==
    \/ Connect \/ ImportTrain \/ ImportTest \/ FindTrain \/ FindTest
    \/ DropIdTrain \/ DropIdTest \/ FillnaTrain \/ FillnaTest \/ Close
    \/ Rerun

SpecRuns == Init /\ [][NextRuns]_vars

\* ------------------------------------------ forward-fill on arbitrary gaps
\* The run stands before the two fillna calls, with tables whose two data
\* columns have gaps anywhere.
GapTables ==
    UNION {{[i \in 1..n |-> CsvRowOf(i, mip[i], solar[i], CsvHeader)] :
               mip \in [1..n -> {NaN, 1, 2}], solar \in [1..n -> {NaN, 0}]} :
           n \in 1..MaxLen}

Retrieved(trainRows, testRows) ==
    LET recTrain == read_records(CsvFile(trainRows), columns).records
        recTest == read_records(CsvFile(testRows), columns).records
    IN /\ csv = [f \in FileNames |->
                    CsvFile(IF f = "train" THEN trainRows ELSE testRows)]
       /\ store = [f \in FileNames |->
                      IF f = "train" THEN insert_many(<<>>, recTrain, 1)
                      ELSE insert_many(<<>>, recTest, 1 + Len(recTrain))]
       /\ nextId = 1 + Len(recTrain) + Len(recTest)
       /\ run = 1
       /\ imports = [f \in FileNames |-> 1]
       /\ fault = "none"
       /\ storeOps = <<<<"insert_many", "train">>, <<"insert_many", "test">>,
                       <<"find", "train">>, <<"find", "test">>>>

InitFfill ==
    \E t \in GapTables : \E f \in FileNames :
        LET plain == CsvTable(<<"P">>, CsvHeader)
        IN /\ Retrieved(IF f = "train" THEN t ELSE plain,
                        IF f = "test" THEN t ELSE plain)
           /\ pc = "fillna_train" /\ idx = 0
           /\ client = [state |-> "open", opens |-> 1]
           /\ data_train = DropColumn(store["train"], "_id")
           /\ data_test = DropColumn(store["test"], "_id")
           /\ NotYetTrained /\ NotYetEvaluated /\ NoApp

NextFfill == FillnaTrain \/ FillnaTest

SpecFfill == InitFfill /\ [][NextFfill]_vars

\* ------------------------------------------------ metrics on arbitrary data
\* The run stands before the loop that computes the metrics, with test
\* targets and fitted regressors drawn freely.
TargetValues == {0, 1, 2}
MapeParams == {0, 1, 3} \X {0, 1, 3}

InitMape ==
    \E n \in 1..MaxTest :
    \E ys \in [1..n -> TargetValues] : \E mips \in [1..n -> {1, 2}] :
    \E plr \in MapeParams : \E prf \in MapeParams :
        LET trainRows == CsvTable(<<"P", "Z">>, CsvHeader)
            testRows == [i \in 1..n |-> CsvRowOf(i, mips[i], ys[i], CsvHeader)]
            fit == fit_transform(NoScaler, X_train_split)
        IN /\ Retrieved(trainRows, testRows)
           /\ pc = "evaluate" /\ idx = 1
           /\ client = [state |-> "closed", opens |-> 1]
           /\ data_train = fillna(DropColumn(store["train"], "_id"))
           /\ data_test = fillna(DropColumn(store["test"], "_id"))
           /\ X_train_split = [X_train EXCEPT !.rows = SubSeqAt(@, {2})]
           /\ X_valid_split = [X_train EXCEPT !.rows = SubSeqAt(@, {1})]
           /\ y_train_split = SubSeqAt(y_train, {2})
           /\ scaler = fit.scaler
           /\ X_train_scaled = fit.scaled
           /\ X_valid_scaled = transform(scaler, X_valid_split).scaled
           /\ models = [m \in ModelSet |->
                           IF m = "lr" THEN [fitted |-> TRUE, lo |-> plr[1], hi |-> plr[2]]
                           ELSE IF m = "rf" THEN [fitted |-> TRUE, lo |-> prf[1], hi |-> prf[2]]
                           ELSE [fitted |-> TRUE, lo |-> 1, hi |-> 1]]
           /\ X_test = Select(data_test, features)
           /\ y_test = Col(data_test, target)
           /\ X_test_scaled = transform(scaler, X_test).scaled
           /\ predictions = [m \in ModelSet |-> predict(models[m], X_test_scaled)]
           /\ predictCalls = Len(ModelKeys)
           /\ results = <<>>
           /\ NoApp

NextMape == Evaluate

SpecMape == InitMape /\ [][NextMape]_vars

\* ================================================================ claims
IsPrefix(a, b) == Len(a) <= Len(b) /\ a = SubSeq(b, 1, Len(a))
Max(S) == CHOOSE x \in S : \A y \in S : y <= x
HasZeroTarget == \E i \in 1..Len(y_test) : y_test[i] = 0

\* C1: after an invocation of update_output with one of the three model
\* keys, the page shows, if n_clicks > 0, a chart of exactly two series,
\* 'Predicted' holding the stored predictions of that model and 'Actual'
\* holding y_test, and three texts 'RMSE:', 'MSE:', 'MAPE:' with that
\* model's stored metrics; if n_clicks = 0 it shows an empty chart and three
\* empty strings, whatever the selected model.
C1_CallbackOutput ==
    lastCall.trigger # "none" =>
        /\ (lastCall.n_clicks = 0 =>
                /\ lastCall.raised = "none"
                /\ output.figure.data = <<>>
                /\ output.rmse = <<>> /\ output.mse = <<>> /\ output.mape = <<>>)
        /\ (lastCall.n_clicks > 0 /\ lastCall.model_type \in ModelSet =>
                LET m == lastCall.model_type
                IN /\ lastCall.raised = "none"
                   /\ Len(output.figure.data) = 2
                   /\ output.figure.data[1].name = "Predicted"
                   /\ output.figure.data[1].y = predictions[m]
                   /\ output.figure.data[2].name = "Actual"
                   /\ output.figure.data[2].y = y_test
                   /\ output.rmse = <<"RMSE: ", results[m].RMSE>>
                   /\ output.mse = <<"MSE: ", results[m].MSE>>
                   /\ output.mape = <<"MAPE: ", results[m].MAPE>>)

C1_Witness ==
    /\ lastCall.n_clicks > 0 /\ lastCall.model_type = "rf"
    /\ Len(output.figure.data) = 2
    /\ predictions["rf"] # predictions["lr"]
    /\ results["rf"] # results["lr"]

StoreProtocol ==
    <<<<"insert_many", "train">>, <<"insert_many", "test">>,
      <<"find", "train">>, <<"find", "test">>>>

BeforeClose ==
    {"connect", "import_train", "import_test", "find_train", "find_test",
     "drop_train", "drop_test", "fillna_train", "fillna_test", "close"}

C4_ConnectionLifetime ==
    /\ client.opens <= 1
    /\ (storeOps # <<>> => client.opens = 1)
    /\ IsPrefix(storeOps, StoreProtocol)
    /\ (client.state = "closed" => storeOps = StoreProtocol)
    /\ (pc \notin BeforeClose \cup {"halted"} => client.state = "closed")
    /\ (X_train_split # NoFrame \/ scaler.nfit > 0 \/ models # <<>>
            => client.state = "closed")
    /\ (loaded => client.state = "closed")

C4_Witness ==
    /\ pc = "serving" /\ lastCall.n_clicks > 0 /\ lastCall.raised = "none"
    /\ client.state = "closed" /\ storeOps = StoreProtocol

\* C5: every completed import_csv_data appends one document per CSV row,
\* under a fresh _id: after k imports of a file of n rows its collection
\* holds k*n documents, each row k times, and a retrieval returns k*n rows.
FileRecords(f) == read_records(csv[f], columns).records

WithoutId(doc) == [c \in (DOMAIN doc) \ {"_id"} |-> doc[c]]

Appended(f, table) ==
    LET recs == FileRecords(f)
        docs == store[f]
    IN /\ Len(docs) = imports[f] * Len(recs)
       /\ \A i \in 1..Len(recs) :
            Cardinality({j \in 1..Len(docs) : WithoutId(docs[j]) = recs[i]}) = imports[f]
       /\ \A i, j \in 1..Len(docs) : i # j => docs[i]["_id"] # docs[j]["_id"]
       /\ (table # <<>> => Len(table) = imports[f] * Len(recs))

C5_IngestionAppends == Appended("train", data_train) /\ Appended("test", data_test)

C5_Witness ==
    /\ run = 2 /\ imports["train"] = 2
    /\ Len(csv["train"].rows) = 2 /\ Len(store["train"]) = 4 /\ Len(data_train) = 4

\* C6: after fillna, in every column of each table, a row with no
\* non-missing value at or above it is still missing, and every other row
\* holds the nearest non-missing value at or above it in the column as read
\* from the store (so a value that was not missing is unchanged).
ForwardFilled(orig, filled) ==
    /\ Len(filled) = Len(orig)
    /\ \A i \in 1..Len(orig) : \A c \in Range(columns) :
        LET valid == {j \in 1..i : ~IsNaN(orig[j][c])}
        IN IF valid = {} THEN IsNaN(filled[i][c])
           ELSE filled[i][c] = orig[Max(valid)][c]

AsRead(f) == DropColumn(store[f], "_id")

C6_ForwardFill ==
    /\ (pc \in {"fillna_test", "close"} => ForwardFilled(AsRead("train"), data_train))
    /\ (pc = "close" => ForwardFilled(AsRead("test"), data_test))

C6_Witness ==
    /\ pc = "close"
    /\ Col(AsRead("test"), "MIP") = <<NaN, 1, NaN>>
    /\ Col(data_test, "MIP") = <<NaN, 1, 1>>
    /\ Col(AsRead("test"), "Solar_MW") = <<0, NaN, NaN>>
    /\ Col(data_test, "Solar_MW") = <<0, 0, 0>>

\* C7: the scaler is fitted at most once, on the features of the training
\* split; the scaled validation split and the scaled test table are the
\* transforms under the statistics of that fit, over the six feature
\* columns in the order of the fit; the target is not a feature.
C7_ScalerFitOnce ==
    LET fitted == ScalerFit(NoScaler, X_train_split)
    IN /\ scaler.nfit <= 1
       /\ Len(features) = 6 /\ target \notin Range(features)
       /\ (pc \in {"transform_valid", "create_models", "fit_models", "prepare_test",
                   "transform_test", "predict", "evaluate", "build_app",
                   "run_server", "serving"} => scaler.nfit = 1)
       /\ (scaler.nfit > 0 => scaler = fitted /\ scaler.feature_names = features)
       /\ (X_valid_scaled # <<>> =>
              /\ X_valid_split.cols = scaler.feature_names
              /\ X_valid_scaled = ScalerTransform(fitted, X_valid_split))
       /\ (X_test_scaled # <<>> =>
              /\ X_test.cols = scaler.feature_names
              /\ X_test_scaled = ScalerTransform(fitted, X_test))

C7_Witness ==
    /\ pc = "serving" /\ loaded /\ scaler.nfit = 1
    /\ X_test_scaled # <<>>
    /\ ScalerFit(NoScaler, X_test) # ScalerFit(NoScaler, X_train_split)

\* C8 as stated: with a zero actual target in the test set, the MAPE of
\* every model is non-finite.
C8_Original ==
    \A m \in DOMAIN results : HasZeroTarget => ~IsFinite(results[m].MAPE)

\* C8: with a zero actual target in the test set, the MAPE of a model is
\* infinite if its prediction at some zero-target row is not zero; if its
\* prediction is zero at every zero-target row, those rows are left out of
\* the mean, and the MAPE is NaN when no other row exists and finite
\* otherwise.
C8_MapeOnZeroTarget ==
    \A m \in DOMAIN results :
        HasZeroTarget =>
            LET Z == {i \in 1..Len(y_test) : y_test[i] = 0}
            IN IF \E i \in Z : predictions[m][i] # 0 THEN results[m].MAPE = Inf
               ELSE IF Z = 1..Len(y_test) THEN results[m].MAPE = NaNf
               ELSE results[m].MAPE.kind = "fin"

C8_Witness ==
    /\ "rf" \in DOMAIN results
    /\ \E i \in 1..Len(y_test) : y_test[i] = 0 /\ predictions["rf"][i] # 0
    /\ \E i \in 1..Len(y_test) : y_test[i] = 0 /\ predictions["lr"][i] = 0
    /\ results["rf"].MAPE = Inf

\* C9 as stated: a zero-valued target halts the run where MAPE is computed,
\* so no result is stored and no later stage runs.
C9_Original ==
    HasZeroTarget =>
        results = <<>> /\ pc \notin {"build_app", "run_server", "serving"}

\* C9: an exception ends the run in the step that raises it: that step
\* changes nothing else in memory or in the store, no step follows it (no
\* retry, no fallback, no server start); an unusable file never gets past
\* its import; the server runs only after a run without exception.  A zero
\* target is not an exception: ValueError comes only from a table too short
\* to split or from a missing value.
FileFault(file) ==
    IF ~file.exists THEN "FileNotFoundError"
    ELSE IF ~file.wellformed THEN "ParserError"
    ELSE IF ~(Range(columns) \subseteq file.header) THEN "KeyError"
    ELSE IF file.rows = <<>> THEN "TypeError"
    ELSE "none"

TableHasNaN(table) ==
    \E i \in 1..Len(table) : IsNaN(table[i]["MIP"]) \/ IsNaN(table[i][target])

C9_FaultStep ==
    /\ pc # "halted" /\ fault = "none"
    /\ (fault' # "none" <=> pc' = "halted")
    /\ (fault' # "none" =>
           UNCHANGED <<csv, run, idx, storeVars, client, tableVars, trainVars,
                       evalVars, uiVars>>)

C9_FaultState ==
    /\ (FileFault(csv["train"]) # "none" =>
           \/ pc \in {"connect", "import_train"}
           \/ pc = "halted" /\ fault = FileFault(csv["train"]) /\ storeOps = <<>>)
    /\ (FileFault(csv["train"]) = "none" /\ FileFault(csv["test"]) # "none" =>
           \/ pc \in {"connect", "import_train", "import_test"}
           \/ pc = "halted" /\ fault = FileFault(csv["test"])
           \/ pc = "halted" /\ fault = "ServerSelectionTimeoutError"
                            /\ store["train"] = <<>>)
    /\ (fault = "ValueError" =>
           Len(data_train) < 2 \/ TableHasNaN(data_train) \/ TableHasNaN(data_test))
    /\ (pc \in {"run_server", "serving"} =>
           /\ fault = "none"
           /\ FileFault(csv["train"]) = "none" /\ FileFault(csv["test"]) = "none"
           /\ ~ScaledHasNaN(X_train_scaled) /\ ~HasNaN(y_train_split)
           /\ ~TableHasNaN(data_test)
           /\ DOMAIN results = ModelSet)

C9_FaultsHalt == [][C9_FaultStep /\ C9_FaultState']_vars

C9_Witness ==
    /\ pc = "halted" /\ fault = "ValueError"
    /\ client.state = "closed" /\ scaler.nfit = 1
    /\ predictions = <<>> /\ callbacks = {}

\* C10: an invocation of update_output with a key outside the three models
\* raises KeyError when n_clicks > 0, and then the page, predictions and
\* results stay as they were; when n_clicks = 0 it raises nothing and the
\* page shows the empty chart and empty texts.
C10_UnknownKey ==
    [][lastCall'.trigger # "none" /\ lastCall'.model_type \notin ModelSet =>
          IF lastCall'.n_clicks > 0
          THEN /\ lastCall'.raised = "KeyError"
               /\ UNCHANGED <<output, predictions, results>>
          ELSE /\ lastCall'.raised = "none"
               /\ output' = EmptyOutput]_vars

C10_Witness ==
    /\ lastCall.model_type = NoneKey /\ lastCall.raised = "KeyError"
    /\ Len(output.figure.data) = 2

====
